---------------------------- MODULE Spec2Model ----------------------------
(***************************************************************************)
(* Session lifecycle manager and reward ledger of rupeedesk-server.        *)
(*                                                                         *)
(* The repository holds several variants of the same server.  Each variant *)
(* is a specification of its own over the shared state below:              *)
(*   SpecLedger  the capped reward transaction of src/server.js:356-399    *)
(*               (the same code as src/unnamed/part_002:34-59)             *)
(*   SpecLedger0 the referral transaction of src/unnamed/part_000:67-124   *)
(*   SpecPart0   the session manager of src/unnamed/part_000               *)
(*   SpecPart1   the session manager of src/unnamed/part_001               *)
(*   SpecPart2   the session manager of src/unnamed/part_002               *)
(*   SpecServer  the session manager of src/server.js:261-500              *)
(*   SpecBoot    the boot recovery of src/server.js:404-421, run alone     *)
(*   SpecDial    the phoneNumber given to requestPairingCode               *)
(*   SpecTxn     the reward transaction run as Firestore runs it: read,    *)
(*               commit, retry on conflict, across midnight                *)
(*   SpecRetry   SpecBoot with the scheduling of timers and awaits         *)
(*   SpecPart2One  part_002 with every pairing request made by one user    *)
(*   SpecUpsert  one messages.upsert event delivered to each handler       *)
(*   SpecCampaign  the campaign of src/server.js:92-124                    *)
(*                                                                         *)
(* Money is kept in thousandths of a rupee, so that the reward 0.63 and    *)
(* the commission 0.063 are the integers 630 and 63.                       *)
(***************************************************************************)
EXTENDS Integers, Sequences, FiniteSets, TLC

VARIABLES
    today,        \* new Date().toISOString().slice(0, 10), as a day number
    docs,         \* Firestore collection 'users': userId -> ledger document
    evToday,      \* history: qualifying events handled for a user on `today`
    balDayStart,  \* history: the user's balance when `today` began
    stats,        \* Firestore document app_stats/whatsapp: totalMessages
    txns,         \* db.runTransaction calls in flight: id -> position, locals
    credited,     \* history: rewards committed for a Receiver, by the date
                  \* (the const today) of the handler that committed them
    inbound,      \* the messages.upsert event that is delivered (SpecUpsert)
    socks,        \* every socket makeWASocket has returned: id -> its state
    registry,     \* the connection map: userId -> socket id (0: no entry)
    status,       \* userConnectionStatus: userId -> status string
    authDir,      \* the directory auth_info_<userId>: none, fresh or paired
    bound,        \* users/<userId>.whatsAppBound (whatsAppNumber in part_002)
    timers,       \* pending setTimeout(() => initializeWhatsAppConnection(u))
    inits,        \* calls of initializeWhatsAppConnection suspended at an await
    reqs,         \* HTTP requests in flight: id -> position and locals
    logouts,      \* history: logout() commands issued on each socket
    lastClose,    \* the close event this step handled: socket and reason
    qr,           \* the qrCode held with a user's status (0: none, 1: a qr)
    renders,      \* sockets whose qr is being rendered by qrcode.toDataURL
    boot,         \* reconnectExistingSessions: directories left, call awaited
    lastRead,     \* the status read this step answered, and the one before
    lastSend,     \* the POST /send-message this step answered
    terminated,   \* history: a session of the user closed logged-out and no
                  \* pairing or qr request for the user has arrived since
    dial,         \* POST /request-pairing-code: the phoneNumber of the body
                  \* and the argument requestPairingCode was called with
    camp          \* POST /start-campaign: its body, count, interval, the
                  \* callbacks suspended at sendMessage; history: the sends

txnVars == <<txns, credited, inbound>>

ledgerVars == <<today, docs, evToday, balDayStart, stats, txnVars>>

srvVars == <<qr, renders, boot>>

sessVars == <<socks, registry, status, authDir, bound, timers, inits, reqs,
              logouts, lastClose, srvVars, lastRead, lastSend, terminated,
              dial, camp>>

vars == <<ledgerVars, sessVars>>

-----------------------------------------------------------------------------
(* Bounds of the model *)

MaxDay == 2
MaxEventsPerDay == 202
MaxSocks == 2
ExtraSocks == 1
MaxReqs == 2
MaxQr == 1
MaxTxns == 3

(* Program constants *)

DailyCap == 200
Reward == 630
CommissionPct == 10

Users == {"u1", "u2"}
NoUser == "none"
\* the users whose sessions deliver inbound messages
Receivers == {"u1"}

Min(a, b) == IF a < b THEN a ELSE b

-----------------------------------------------------------------------------
(* Reward ledger *)

NoDoc == [exists |-> FALSE, balance |-> 0, msgCount |-> 0, todayCount |-> 0,
          lastDate |-> 0, referrerId |-> NoUser]

NewDoc(ref) == [NoDoc EXCEPT !.exists = TRUE, !.referrerId = ref]

TxnIds == 1..MaxTxns

\* a call of db.runTransaction: pc (idle, begun, read, done), the userId and
\* the const today of the handler, and the document transaction.get returned
NoTxn == [pc |-> "idle", user |-> NoUser, day |-> 0, snap |-> NoDoc]

\* no reward transaction is in flight
TxnIdle ==
    /\ txns = [t \in TxnIds |-> NoTxn]
    /\ credited = [d \in 1..MaxDay |-> 0]

\* an inbound messages.upsert event, as far as the handlers look at it
Messages == [hasMessage : BOOLEAN, fromMe : BOOLEAN, stub : BOOLEAN, notify : BOOLEAN]

\* no event is being delivered
NoMsg == [hasMessage |-> FALSE, fromMe |-> FALSE, stub |-> FALSE,
          notify |-> FALSE]

\* if (!msg.message || msg.key.fromMe || msg.messageStubType) return;
Qualifies(msg) == ~(~msg.hasMessage \/ msg.fromMe \/ msg.stub)

\* RewardTransaction writing the date also when the cap is reached
RewardTransaction_DatesAtCap(d, u, day) ==
    IF ~d[u].exists THEN d
    ELSE LET lastDate == d[u].lastDate
             todayCount == IF lastDate # day THEN 0 ELSE d[u].todayCount
         IN  IF todayCount >= DailyCap
             THEN [d EXCEPT ![u].msgCount = @ + 1, ![u].lastDate = day]
             ELSE [d EXCEPT ![u].balance = @ + Reward,
                            ![u].msgCount = @ + 1,
                            ![u].todayCount = @ + 1,
                            ![u].lastDate = day]

\* The body of db.runTransaction in the capped variants: the documents after
\* the transaction has committed.  FieldValue.increment adds to the STORED
\* field; the local todayCount only decides whether to write.
RewardTransaction(d, u, day) ==
    IF ~d[u].exists THEN d
    ELSE LET lastDate == d[u].lastDate
             todayCount == IF lastDate # day THEN 0 ELSE d[u].todayCount
         IN  IF todayCount >= DailyCap THEN d
             ELSE [d EXCEPT ![u].balance = @ + Reward,
                            ![u].msgCount = @ + 1,
                            ![u].todayCount = @ + 1,
                            ![u].lastDate = day]

\* the ledger before any event
LedgerStart ==
    /\ today = 1
    /\ \E e1 \in BOOLEAN, e2 \in BOOLEAN, ref \in {NoUser, "u2"} :
          docs = [u \in Users |->
                    IF u = "u1" THEN (IF e1 THEN NewDoc(ref) ELSE NoDoc)
                    ELSE (IF e2 THEN NewDoc(NoUser) ELSE NoDoc)]
    /\ evToday = [u \in Users |-> 0]
    /\ balDayStart = [u \in Users |-> 0]
    /\ stats = 0
    /\ TxnIdle

LedgerInit == LedgerStart /\ inbound = NoMsg

\* sock.ev.on('messages.upsert', ...) of server.js / part_002
MessagesUpsert(u, msg) ==
    /\ evToday[u] < MaxEventsPerDay
    /\ IF Qualifies(msg)
       THEN /\ docs' = RewardTransaction(docs, u, today)
            /\ evToday' = [evToday EXCEPT ![u] = @ + 1]
       ELSE UNCHANGED <<docs, evToday>>
    /\ UNCHANGED <<today, balDayStart, stats, txnVars>>
    /\ UNCHANGED sessVars

\* the calendar date of the server clock moves on
Midnight ==
    /\ today < MaxDay
    /\ today' = today + 1
    /\ evToday' = [u \in Users |-> 0]
    /\ balDayStart' = [u \in Users |-> docs[u].balance]
    /\ UNCHANGED <<docs, stats, txnVars>>
    /\ UNCHANGED sessVars

LedgerNext ==
    \/ \E u \in Receivers, msg \in Messages : MessagesUpsert(u, msg)
    \/ Midnight

-----------------------------------------------------------------------------
(* The referral transaction of part_000: no daily cap, a commission for the
   referrer, all writes in one Firestore transaction. *)

\* const commissionAmount = taskReward * commissionRate;
Commission == (Reward * CommissionPct) \div 100

\* if (!msg.key.fromMe && m.type === 'notify' && msg.message)
Qualifies0(msg) == ~msg.fromMe /\ msg.notify /\ msg.hasMessage

\* The documents and the global counter after db.runTransaction of part_000.
\* transaction.update of a document that does not exist fails the commit, and
\* a failed commit applies none of the transaction's writes.
ReferralTransaction(d, st, u) ==
    IF ~d[u].exists THEN <<d, st>>
    ELSE LET ref == d[u].referrerId
         IN  IF ref = NoUser
             THEN <<[d EXCEPT ![u].balance = @ + Reward, ![u].msgCount = @ + 1],
                    st + 1>>
             ELSE IF ~d[ref].exists THEN <<d, st>>
             ELSE <<[d EXCEPT ![u].balance = @ + Reward,
                              ![u].msgCount = @ + 1,
                              ![ref].balance = @ + Commission],
                    st + 1>>

\* sock.ev.on('messages.upsert', ...) of part_000
MessagesUpsert0(u, msg) ==
    /\ evToday[u] < MaxEventsPerDay
    /\ IF Qualifies0(msg)
       THEN /\ docs' = ReferralTransaction(docs, stats, u)[1]
            /\ stats' = ReferralTransaction(docs, stats, u)[2]
            /\ evToday' = [evToday EXCEPT ![u] = @ + 1]
       ELSE UNCHANGED <<docs, stats, evToday>>
    /\ UNCHANGED <<today, balDayStart, txnVars>>
    /\ UNCHANGED sessVars

Ledger0Next ==
    \/ \E u \in Receivers, msg \in Messages : MessagesUpsert0(u, msg)
    \/ Midnight

-----------------------------------------------------------------------------
(* The reward transaction of server.js:370-395 and part_002:41-56 as the
   store runs it: transaction.get reads the document, the function decides,
   and the commit applies the update only if the document is still the one
   that was read; otherwise the store runs the function again. *)

\* the user document after n rewards committed one after the other on day 1
DocAfter(n) ==
    [NewDoc(NoUser) EXCEPT !.balance = n * Reward, !.msgCount = n,
                           !.todayCount = n,
                           !.lastDate = IF n = 0 THEN 0 ELSE 1]

\* transaction slots are taken in order
NextTxn(t) ==
    /\ txns[t].pc = "idle"
    /\ \A x \in TxnIds : x < t => txns[x].pc # "idle"

\* the handler of a qualifying message fixes today and calls
\* db.runTransaction (server.js:358-372)
T_Begin(t, u) ==
    /\ NextTxn(t)
    /\ txns' = [txns EXCEPT ![t] = [NoTxn EXCEPT !.pc = "begun", !.user = u,
                                                  !.day = today]]
    /\ UNCHANGED <<today, docs, evToday, balDayStart, stats, credited, inbound>>
    /\ UNCHANGED sessVars

\* const userDoc = await transaction.get(userRef) (server.js:373)
T_Get(t) ==
    /\ txns[t].pc = "begun"
    /\ txns' = [txns EXCEPT ![t] = [@ EXCEPT !.pc = "read",
                                             !.snap = docs[txns[t].user]]]
    /\ UNCHANGED <<today, docs, evToday, balDayStart, stats, credited, inbound>>
    /\ UNCHANGED sessVars

\* the function returns and the transaction commits (server.js:374-395): on
\* a document written since it was read, the function is run again
T_Commit(t) ==
    LET u == txns[t].user
        after == RewardTransaction(docs, u, txns[t].day)
    IN  /\ txns[t].pc = "read"
        /\ IF docs[u] # txns[t].snap
           THEN /\ txns' = [txns EXCEPT ![t] = [@ EXCEPT !.pc = "begun",
                                                         !.snap = NoDoc]]
                /\ UNCHANGED <<docs, credited>>
           ELSE /\ docs' = after
                /\ credited' = IF after # docs
                               THEN [credited EXCEPT ![txns[t].day] = @ + 1]
                               ELSE credited
                /\ txns' = [txns EXCEPT ![t] = [NoTxn EXCEPT !.pc = "done"]]
        /\ UNCHANGED <<today, evToday, balDayStart, stats, inbound>>
        /\ UNCHANGED sessVars

-----------------------------------------------------------------------------
(* Sessions: what the variants share *)

SockIds == 1 .. (MaxSocks + ExtraSocks)
ReqIds == 1 .. MaxReqs

\* A socket.  st: unused (not created yet), connecting (created, websocket not
\* open), wsopen (websocket open, not authenticated), open (connection 'open'
\* was emitted), closed (connection 'close' was emitted).
\* creds: the auth state loaded when it was made.  artifact: a pairing code
\* was requested on it or it emitted a qr.  qrs: the qr events it has
\* emitted.  listeners: messages.upsert listeners attached.  temp: made by
\* an endpoint, not by initializeWhatsAppConnection; forQr: by the qr
\* endpoint of part_002.  wired: connection.update and creds.update
\* listeners were attached when it was made.  History: reg (was put in the connection map), old
\* (the map's entry when the call that made it began).
NoSock == [owner |-> NoUser, st |-> "unused", creds |-> "none",
           artifact |-> FALSE, qrs |-> 0, listeners |-> 0, temp |-> FALSE,
           forQr |-> FALSE, reg |-> FALSE, old |-> 0, wired |-> FALSE]

\* a closed socket: the library has dropped its connection state
Closed(sk) == [NoSock EXCEPT !.owner = sk.owner, !.st = "closed",
                             !.temp = sk.temp, !.reg = sk.reg, !.old = sk.old,
                             !.wired = sk.wired]

\* a socket id that a specification does not hand out
Spent == [NoSock EXCEPT !.st = "closed"]

Live(s) == socks[s].st \in {"connecting", "wsopen", "open"}

WsIsOpen(s) == socks[s].st \in {"wsopen", "open"}

Unused == {s \in SockIds : socks[s].st = "unused"}

\* the socket the next makeWASocket returns
NewSockId == CHOOSE s \in Unused : \A x \in Unused : s <= x

NoReq == [pc |-> "idle", user |-> NoUser, sock |-> 0, old |-> 0, resp |-> 0]

\* request ids are given out in order of arrival
NextReq(r) ==
    reqs[r].pc = "idle" /\ \A q \in ReqIds : q < r => reqs[q].pc # "idle"

LiveOf(u) == {s \in SockIds : socks[s].owner = u /\ Live(s)}

NoClose == [sock |-> 0, reason |-> "none"]

\* reconnectExistingSessions: found (the directories listed), todo (those
\* the loop has not come to), cur (the one whose call it awaits).  History:
\* tried (the userIds it has called initializeWhatsAppConnection for, in
\* order), failed (those whose call was rejected).
NoBoot == [found |-> {}, todo |-> {}, cur |-> NoUser, tried |-> <<>>,
           failed |-> {}]

\* the state of reconnectExistingSessions after the listing
Listed(dirs) == [NoBoot EXCEPT !.found = dirs, !.todo = dirs]

\* n: how many status reads of `user` have followed each other (at most 2);
\* status, artifact: the status and the qrCode this read answered (0: none);
\* prev: the qrCode the read before it answered
NoRead == [user |-> NoUser, n |-> 0, status |-> "none", artifact |-> 0,
           prev |-> 0]

\* given: the body had every required field; resp: the HTTP status
\* answered; sends: the calls of sock.sendMessage the request made
NoSend == [user |-> NoUser, given |-> FALSE, resp |-> 0, sends |-> 0]

\* no pairing code has been asked for
NoDial == [variant |-> "none", phoneNumber |-> <<>>, passed |-> <<>>]

\* no POST /start-campaign has arrived.  session: activeSockets has the
\* sessionCode; contacts: contacts.length; message: the message is given;
\* interval: the setInterval is set; count: the count of the handler;
\* sending: the callbacks suspended at await sock.sendMessage.  History:
\* sent (the index in contacts of every sendMessage called, in order),
\* failed (the sends that threw).
NoCamp == [pc |-> "idle", resp |-> 0, session |-> FALSE, contacts |-> 0,
           message |-> FALSE, interval |-> FALSE, count |-> 0, sending |-> 0,
           sent |-> <<>>, failed |-> 0]

\* the users whose send requests are followed
Senders == {"u1"}

\* the users whose status reads are followed
Readers == {"u1"}

\* this step is no close event, no status read and no send request
Quiet ==
    /\ lastClose' = NoClose
    /\ lastRead' = NoRead
    /\ UNCHANGED <<dial, camp>>
    /\ lastSend' = NoSend
    /\ UNCHANGED terminated

\* this step is the arrival of a well-formed pairing or qr request for u
Binding(u) ==
    /\ lastClose' = NoClose
    /\ lastRead' = NoRead
    /\ UNCHANGED <<dial, camp>>
    /\ lastSend' = NoSend
    /\ terminated' = [terminated EXCEPT ![u] = FALSE]

\* this step is the close event that a request's logout() of socket s brings
Replacing(s) ==
    /\ lastClose' = [sock |-> s, reason |-> "loggedOut"]
    /\ lastRead' = NoRead
    /\ UNCHANGED <<dial, camp>>
    /\ lastSend' = NoSend
    /\ UNCHANGED terminated

\* this step is the close event of socket s
Closing(s, reason) ==
    /\ lastClose' = [sock |-> s, reason |-> reason]
    /\ lastRead' = NoRead
    /\ UNCHANGED <<dial, camp>>
    /\ lastSend' = NoSend
    /\ terminated' = IF reason = "loggedOut"
                     THEN [terminated EXCEPT ![socks[s].owner] = TRUE]
                     ELSE terminated

\* saveCreds writes into the directory; it does not make it again
Saved(dir) == IF dir = "none" THEN "none" ELSE "paired"

\* useMultiFileAuthState(authDir): the directory exists afterwards
Loaded(dir) == IF dir = "none" THEN "fresh" ELSE dir

\* no session yet; makeWASocket can return n sockets
SessStart(n) ==
    /\ socks = [s \in SockIds |-> IF s <= n THEN NoSock ELSE Spent]
    /\ registry = [u \in Users |-> 0]
    /\ status = [u \in Users |-> "not_found"]
    /\ authDir \in [Users -> {"none", "paired"}]
    /\ bound = [u \in Users |-> authDir[u] = "paired"]
    /\ timers = [u \in Users |-> 0]
    /\ inits = [u \in Users |-> 0]
    /\ reqs = [r \in ReqIds |-> NoReq]
    /\ logouts = [s \in SockIds |-> 0]
    /\ lastClose = NoClose
    /\ qr = [u \in Users |-> 0]
    /\ renders = {}
    /\ lastRead = NoRead
    /\ lastSend = NoSend
    /\ dial = NoDial /\ camp = NoCamp
    /\ terminated = [u \in Users |-> FALSE]

SessInit == SessStart(MaxSocks)

\* the ledger, in the specifications of the session managers
LedgerIdle ==
    /\ today = 1
    /\ docs = [u \in Users |-> NewDoc(NoUser)]
    /\ evToday = [u \in Users |-> 0]
    /\ balDayStart = [u \in Users |-> 0]
    /\ stats = 0
    /\ TxnIdle
    /\ inbound = NoMsg

\* the sessions, in the specifications of the ledger
SessIdle ==
    /\ socks = [s \in SockIds |-> NoSock]
    /\ registry = [u \in Users |-> 0]
    /\ status = [u \in Users |-> "not_found"]
    /\ authDir = [u \in Users |-> "none"]
    /\ bound = [u \in Users |-> FALSE]
    /\ timers = [u \in Users |-> 0]
    /\ inits = [u \in Users |-> 0]
    /\ reqs = [r \in ReqIds |-> NoReq]
    /\ logouts = [s \in SockIds |-> 0]
    /\ lastClose = NoClose
    /\ qr = [u \in Users |-> 0]
    /\ renders = {}
    /\ boot = NoBoot
    /\ lastRead = NoRead
    /\ lastSend = NoSend
    /\ terminated = [u \in Users |-> FALSE]

CloseReasons == {"loggedOut", "other"}

\* The library's side of a socket, the same in every variant: the websocket
\* of a connecting socket opens.  No handler of any variant reacts to it.
WsOpens(s) ==
    /\ socks[s].st = "connecting"
    /\ socks' = [socks EXCEPT ![s].st = "wsopen"]
    /\ UNCHANGED <<registry, status, authDir, bound, timers, inits, reqs,
                   logouts>>
    /\ Quiet
    /\ UNCHANGED <<ledgerVars, srvVars>>

\* a socket can authenticate: it was made with paired credentials, or the
\* user has been given a pairing code or a qr for it
CanOpen(s) ==
    socks[s].st = "wsopen" /\ (socks[s].creds = "paired" \/ socks[s].artifact)

-----------------------------------------------------------------------------
(* part_000: userSockets, userConnectionStatus *)

\* initializeWhatsAppConnection up to its first await (part_000:30-43), as
\* called by POST /request-pairing-code (part_000:133-142)
P0_Request(r, u, phoneGiven) ==
    /\ NextReq(r)
    /\ IF ~phoneGiven
       THEN /\ reqs' = [reqs EXCEPT ![r] = [NoReq EXCEPT !.pc = "done", !.user = u,
                                                          !.resp = 400]]
            /\ UNCHANGED logouts
       ELSE IF registry[u] # 0
       THEN /\ logouts' = [logouts EXCEPT ![registry[u]] = @ + 1]
            /\ reqs' = [reqs EXCEPT ![r] = [NoReq EXCEPT !.pc = "logout", !.user = u,
                                                          !.old = registry[u]]]
       ELSE /\ reqs' = [reqs EXCEPT ![r] = [NoReq EXCEPT !.pc = "load", !.user = u]]
            /\ UNCHANGED logouts
    /\ UNCHANGED <<socks, registry, status, authDir, bound, timers, inits>>
    /\ IF phoneGiven THEN Binding(u) ELSE Quiet
    /\ UNCHANGED <<ledgerVars, srvVars>>

\* connection.update handler of part_000 (54-64), connection === 'close'
P0_OnClose(u, st, reg) ==
    <<[st EXCEPT ![u] = "disconnected"], [reg EXCEPT ![u] = 0]>>

\* await logout() returns or throws (part_000:34-40).  A logout that succeeds
\* ends the old socket with reason loggedOut, whose close handler runs before
\* the await resumes; then userSockets.delete(userId).
P0_LogoutReturns(r, ok) ==
    LET u == reqs[r].user
        o == reqs[r].old
    IN  /\ reqs[r].pc = "logout"
        /\ ok => WsIsOpen(o)
        /\ IF ok
           THEN /\ socks' = [socks EXCEPT ![o] = Closed(@)]
                /\ status' = P0_OnClose(u, status, registry)[1]
                /\ Replacing(o)
           ELSE /\ Quiet
                /\ UNCHANGED <<socks, status>>
        /\ registry' = [registry EXCEPT ![u] = 0]
        /\ reqs' = [reqs EXCEPT ![r].pc = "load"]
        /\ UNCHANGED <<authDir, bound, timers, inits, logouts>>
        /\ UNCHANGED <<ledgerVars, srvVars>>

\* await useMultiFileAuthState returns; makeWASocket; userSockets.set
\* (part_000:42-51); back in the endpoint, the 3 s wait begins (144).
\* When it throws, the endpoint's catch answers 500 (158-162).
P0_LoadReturns(r, ok) ==
    LET u == reqs[r].user
        s == NewSockId
    IN  /\ reqs[r].pc = "load"
        /\ IF ok
           THEN /\ Unused # {}
                /\ authDir' = [authDir EXCEPT ![u] = Loaded(@)]
                /\ socks' = [socks EXCEPT ![s] =
                               [NoSock EXCEPT !.owner = u, !.st = "connecting",
                                              !.creds = Loaded(authDir[u]), !.wired = TRUE,
                                              !.listeners = 1, !.reg = TRUE,
                                              !.old = reqs[r].old]]
                /\ registry' = [registry EXCEPT ![u] = s]
                /\ reqs' = [reqs EXCEPT ![r] = [@ EXCEPT !.pc = "wait", !.sock = s]]
                /\ UNCHANGED status
           ELSE /\ status' = [status EXCEPT ![u] = "error"]
                /\ reqs' = [reqs EXCEPT ![r] = [@ EXCEPT !.pc = "done", !.resp = 500]]
                /\ UNCHANGED <<authDir, socks, registry>>
        /\ UNCHANGED <<bound, timers, inits, logouts>>
        /\ Quiet
        /\ UNCHANGED <<ledgerVars, srvVars>>

\* the 3 s are over: if (!sock.ws.isOpen) throw; else requestPairingCode is
\* called (part_000:144-151)
P0_WaitElapses(r) ==
    LET u == reqs[r].user
        s == reqs[r].sock
    IN  /\ reqs[r].pc = "wait"
        /\ IF WsIsOpen(s)
           THEN /\ reqs' = [reqs EXCEPT ![r].pc = "code"]
                /\ UNCHANGED status
           ELSE /\ status' = [status EXCEPT ![u] = "error"]
                /\ reqs' = [reqs EXCEPT ![r] = [@ EXCEPT !.pc = "done", !.resp = 500]]
        /\ UNCHANGED <<socks, registry, authDir, bound, timers, inits, logouts>>
        /\ Quiet
        /\ UNCHANGED <<ledgerVars, srvVars>>

\* await requestPairingCode returns the code or throws (part_000:151-162)
P0_CodeReturns(r, ok) ==
    LET u == reqs[r].user
        s == reqs[r].sock
    IN  /\ reqs[r].pc = "code"
        /\ ok => WsIsOpen(s)
        /\ IF ok
           THEN /\ socks' = [socks EXCEPT ![s].artifact = TRUE]
                /\ status' = [status EXCEPT ![u] = "pending"]
                /\ reqs' = [reqs EXCEPT ![r] = [@ EXCEPT !.pc = "done", !.resp = 200]]
           ELSE /\ status' = [status EXCEPT ![u] = "error"]
                /\ reqs' = [reqs EXCEPT ![r] = [@ EXCEPT !.pc = "done", !.resp = 500]]
                /\ UNCHANGED socks
        /\ UNCHANGED <<registry, authDir, bound, timers, inits, logouts>>
        /\ Quiet
        /\ UNCHANGED <<ledgerVars, srvVars>>

\* connection.update, connection === 'open' (part_000:56-58); the credentials
\* of the binding were saved by the creds.update listener (127)
P0_Open(s) ==
    LET u == socks[s].owner
    IN  /\ CanOpen(s)
        /\ socks' = [socks EXCEPT ![s].st = "open"]
        /\ status' = [status EXCEPT ![u] = "connected"]
        /\ authDir' = [authDir EXCEPT ![u] = Saved(@)]
        /\ UNCHANGED <<registry, bound, timers, inits, reqs, logouts>>
        /\ Quiet
        /\ UNCHANGED <<ledgerVars, srvVars>>

\* connection.update, connection === 'close' (part_000:59-63)
P0_Close(s, reason) ==
    LET u == socks[s].owner
    IN  /\ Live(s)
        /\ socks' = [socks EXCEPT ![s] = Closed(@)]
        /\ status' = P0_OnClose(u, status, registry)[1]
        /\ registry' = P0_OnClose(u, status, registry)[2]
        /\ Closing(s, reason)
        /\ UNCHANGED <<authDir, bound, timers, inits, reqs, logouts>>
        /\ UNCHANGED <<ledgerVars, srvVars>>

Part0Next ==
    \/ \E r \in ReqIds, u \in Users, phoneGiven \in BOOLEAN :
          P0_Request(r, u, phoneGiven)
    \/ \E r \in ReqIds, ok \in BOOLEAN : P0_LogoutReturns(r, ok)
    \/ \E r \in ReqIds, ok \in BOOLEAN : P0_LoadReturns(r, ok)
    \/ \E r \in ReqIds : P0_WaitElapses(r)
    \/ \E r \in ReqIds, ok \in BOOLEAN : P0_CodeReturns(r, ok)
    \/ \E s \in SockIds : WsOpens(s)
    \/ \E s \in SockIds : P0_Open(s)
    \/ \E s \in SockIds, reason \in CloseReasons : P0_Close(s, reason)

-----------------------------------------------------------------------------
(* part_001: activeSockets, userConnectionStatus.  A socket enters
   activeSockets when it opens, not when it is made. *)

\* POST /request-pairing-code (part_001:84-93) and the part of
\* initializeWhatsAppConnection before its await (19-34): an existing entry is
\* reused; otherwise the auth directory is made and the credentials loaded.
P1_Request(r, u, phoneGiven) ==
    /\ NextReq(r)
    /\ IF ~phoneGiven
       THEN /\ reqs' = [reqs EXCEPT ![r] = [NoReq EXCEPT !.pc = "done", !.user = u,
                                                          !.resp = 400]]
            /\ UNCHANGED authDir
       ELSE IF registry[u] # 0
       THEN /\ reqs' = [reqs EXCEPT ![r] = [NoReq EXCEPT !.pc = "poll", !.user = u,
                                                          !.sock = registry[u]]]
            /\ UNCHANGED authDir
       ELSE /\ reqs' = [reqs EXCEPT ![r] = [NoReq EXCEPT !.pc = "load", !.user = u]]
            /\ authDir' = [authDir EXCEPT ![u] = Loaded(@)]
    /\ UNCHANGED <<socks, registry, status, bound, timers, inits, logouts>>
    /\ IF phoneGiven THEN Binding(u) ELSE Quiet
    /\ UNCHANGED <<ledgerVars, srvVars>>

\* makeWASocket of part_001 (36-40): the socket is not put in activeSockets
P1_MakeSocket(u, s) ==
    [socks EXCEPT ![s] = [NoSock EXCEPT !.owner = u, !.st = "connecting",
                                        !.creds = Loaded(authDir[u]), !.wired = TRUE]]

\* await useMultiFileAuthState returns to a request (part_001:34-66, 93);
\* when it throws, the endpoint's catch answers 500 (118-121)
P1_LoadReturns(r, ok) ==
    LET u == reqs[r].user
        s == NewSockId
    IN  /\ reqs[r].pc = "load"
        /\ IF ok
           THEN /\ Unused # {}
                /\ socks' = P1_MakeSocket(u, s)
                /\ reqs' = [reqs EXCEPT ![r] = [@ EXCEPT !.pc = "poll", !.sock = s]]
           ELSE /\ reqs' = [reqs EXCEPT ![r] = [@ EXCEPT !.pc = "done", !.sock = 0, !.resp = 500]]
                /\ UNCHANGED socks
        /\ UNCHANGED <<registry, status, authDir, bound, timers, inits, logouts>>
        /\ Quiet
        /\ UNCHANGED <<ledgerVars, srvVars>>

\* The polling loop (part_001:99-111) ends: a check found sock.ws.isOpen and
\* requestPairingCode is called, or the 20 checks all failed and the request
\* is answered 500.
P1_PollEnds(r) ==
    LET s == reqs[r].sock
    IN  /\ reqs[r].pc = "poll"
        /\ IF WsIsOpen(s)
           THEN reqs' = [reqs EXCEPT ![r].pc = "code"]
           ELSE reqs' = [reqs EXCEPT ![r] = [@ EXCEPT !.pc = "done", !.sock = 0, !.resp = 500]]
        /\ UNCHANGED <<socks, registry, status, authDir, bound, timers, inits,
                       logouts>>
        /\ Quiet
        /\ UNCHANGED <<ledgerVars, srvVars>>

\* await requestPairingCode returns the code or throws (part_001:111-121)
P1_CodeReturns(r, ok) ==
    LET u == reqs[r].user
        s == reqs[r].sock
    IN  /\ reqs[r].pc = "code"
        /\ ok => WsIsOpen(s)
        /\ IF ok
           THEN /\ socks' = [socks EXCEPT ![s].artifact = TRUE]
                /\ status' = [status EXCEPT ![u] = "pending"]
                /\ reqs' = [reqs EXCEPT ![r] = [@ EXCEPT !.pc = "done", !.sock = 0, !.resp = 200]]
           ELSE /\ reqs' = [reqs EXCEPT ![r] = [@ EXCEPT !.pc = "done", !.sock = 0, !.resp = 500]]
                /\ UNCHANGED <<socks, status>>
        /\ UNCHANGED <<registry, authDir, bound, timers, inits, logouts>>
        /\ Quiet
        /\ UNCHANGED <<ledgerVars, srvVars>>

\* connection.update, connection === 'open' (part_001:45-48)
P1_Open(s) ==
    LET u == socks[s].owner
    IN  /\ CanOpen(s)
        /\ socks' = [socks EXCEPT ![s] = [@ EXCEPT !.st = "open", !.reg = TRUE]]
        /\ status' = [status EXCEPT ![u] = "connected"]
        /\ registry' = [registry EXCEPT ![u] = s]
        /\ authDir' = [authDir EXCEPT ![u] = Saved(@)]
        /\ UNCHANGED <<bound, timers, inits, reqs, logouts>>
        /\ Quiet
        /\ UNCHANGED <<ledgerVars, srvVars>>

\* the retry timers after the close handler of part_001 (55-59)
P1_OnCloseTimers(u, reason, tm) ==
    IF reason # "loggedOut" THEN [tm EXCEPT ![u] = @ + 1] ELSE tm

\* connection.update, connection === 'close' (part_001:49-60)
P1_Close(s, reason) ==
    LET u == socks[s].owner
    IN  /\ Live(s)
        /\ socks' = [socks EXCEPT ![s] = Closed(@)]
        /\ status' = [status EXCEPT ![u] = "disconnected"]
        /\ registry' = [registry EXCEPT ![u] = 0]
        /\ timers' = P1_OnCloseTimers(u, reason, timers)
        /\ Closing(s, reason)
        /\ UNCHANGED <<authDir, bound, inits, reqs, logouts>>
        /\ UNCHANGED <<ledgerVars, srvVars>>

\* setTimeout(() => initializeWhatsAppConnection(userId), 5000) fires
\* (part_001:58, 19-34)
P1_TimerFires(u) ==
    /\ timers[u] > 0
    /\ timers' = [timers EXCEPT ![u] = @ - 1]
    /\ IF registry[u] # 0
       THEN UNCHANGED <<authDir, inits>>
       ELSE /\ authDir' = [authDir EXCEPT ![u] = Loaded(@)]
            /\ inits' = [inits EXCEPT ![u] = @ + 1]
    /\ UNCHANGED <<socks, registry, status, bound, reqs, logouts>>
    /\ Quiet
    /\ UNCHANGED <<ledgerVars, srvVars>>

\* await useMultiFileAuthState returns to a call made by a timer
\* (part_001:34-66); nothing handles its failure
P1_InitReturns(u, ok) ==
    /\ inits[u] > 0
    /\ inits' = [inits EXCEPT ![u] = @ - 1]
    /\ IF ok
       THEN /\ Unused # {}
            /\ socks' = P1_MakeSocket(u, NewSockId)
       ELSE UNCHANGED socks
    /\ UNCHANGED <<registry, status, authDir, bound, timers, reqs, logouts>>
    /\ Quiet
    /\ UNCHANGED <<ledgerVars, srvVars>>

\* POST /send-message of part_001 (133-162) when getActiveSocket (70-79)
\* does not suspend in initializeWhatsAppConnection: a field is missing, or
\* activeSockets has the userId, or there is no auth directory.
\* sent: whether await sock.sendMessage resolved.
P1_SendAnswer(u, given, sent) ==
    IF ~given THEN [user |-> u, given |-> FALSE, resp |-> 400, sends |-> 0]
    ELSE IF registry[u] # 0
    THEN [user |-> u, given |-> TRUE, resp |-> IF sent THEN 200 ELSE 500,
          sends |-> 1]
    ELSE [user |-> u, given |-> TRUE, resp |-> 400, sends |-> 0]

P1_SendMessage(u, given, sent) ==
    /\ given => (registry[u] # 0 \/ authDir[u] = "none")
    /\ (given /\ registry[u] # 0 /\ sent) => socks[registry[u]].st = "open"
    /\ (~given \/ registry[u] = 0) => sent
    /\ UNCHANGED <<dial, camp>>
    /\ lastSend' = P1_SendAnswer(u, given, sent)
    /\ lastClose' = NoClose
    /\ lastRead' = NoRead
    /\ UNCHANGED terminated
    /\ UNCHANGED <<socks, registry, status, authDir, bound, timers, inits, reqs,
                   logouts>>
    /\ UNCHANGED <<ledgerVars, srvVars>>

\* POST /send-message when activeSockets has no entry and the auth directory
\* exists: getActiveSocket calls initializeWhatsAppConnection, which
\* suspends in useMultiFileAuthState (part_001:74-76, 19-34)
P1_SendInit(r, u) ==
    /\ NextReq(r)
    /\ registry[u] = 0
    /\ authDir[u] # "none"
    /\ reqs' = [reqs EXCEPT ![r] = [NoReq EXCEPT !.pc = "sendload", !.user = u]]
    /\ UNCHANGED <<socks, registry, status, authDir, bound, timers, inits,
                   logouts>>
    /\ Quiet
    /\ UNCHANGED <<ledgerVars, srvVars>>

\* the await returns: makeWASocket, and sendMessage on the socket just made,
\* which is not open and rejects it; a failed load is answered 500 as well
\* (part_001:34-66, 141-161)
P1_SendLoadReturns(r, ok) ==
    LET u == reqs[r].user
    IN  /\ reqs[r].pc = "sendload"
        /\ IF ok
           THEN /\ Unused # {}
                /\ socks' = P1_MakeSocket(u, NewSockId)
           ELSE UNCHANGED socks
        /\ reqs' = [reqs EXCEPT ![r] = [NoReq EXCEPT !.pc = "done", !.resp = 500]]
        /\ UNCHANGED <<dial, camp>>
        /\ lastSend' = [user |-> u, given |-> TRUE, resp |-> 500,
                        sends |-> IF ok THEN 1 ELSE 0]
        /\ lastClose' = NoClose
        /\ lastRead' = NoRead
        /\ UNCHANGED terminated
        /\ UNCHANGED <<registry, status, authDir, bound, timers, inits, logouts>>
        /\ UNCHANGED <<ledgerVars, srvVars>>

Part1Next ==
    \/ \E r \in ReqIds, u \in Users, phoneGiven \in BOOLEAN :
          P1_Request(r, u, phoneGiven)
    \/ \E r \in ReqIds, ok \in BOOLEAN : P1_LoadReturns(r, ok)
    \/ \E r \in ReqIds : P1_PollEnds(r)
    \/ \E r \in ReqIds, ok \in BOOLEAN : P1_CodeReturns(r, ok)
    \/ \E s \in SockIds : WsOpens(s)
    \/ \E s \in SockIds : P1_Open(s)
    \/ \E s \in SockIds, reason \in CloseReasons : P1_Close(s, reason)
    \/ \E u \in Users : P1_TimerFires(u)
    \/ \E u \in Users, ok \in BOOLEAN : P1_InitReturns(u, ok)
    \/ \E u \in Senders, given \in BOOLEAN, sent \in BOOLEAN :
          P1_SendMessage(u, given, sent)
    \/ \E r \in ReqIds, u \in Senders : P1_SendInit(r, u)
    \/ \E r \in ReqIds, ok \in BOOLEAN : P1_SendLoadReturns(r, ok)

-----------------------------------------------------------------------------
(* server.js:261-500: activeConnections, userConnectionStatus *)

\* a socket of server.js after its close event: what is left in reach of
\* the program is the userId in the closures of its listeners
Gone(sk) == [NoSock EXCEPT !.owner = sk.owner, !.st = "closed",
                           !.wired = sk.wired]


\* makeWASocket and activeConnections.set of initializeWhatsAppConnection
\* (server.js:308-318), once its awaits have returned
S_MakeSocket(u, s) ==
    [socks EXCEPT ![s] = [NoSock EXCEPT !.owner = u, !.st = "connecting",
                                        !.creds = Loaded(authDir[u]), !.wired = TRUE,
                                        !.listeners = 1, !.reg = TRUE]]

\* POST /request-qr-code/:userId (server.js:424-429): the call of
\* initializeWhatsAppConnection is not awaited; the answer waits 5 s
S_QrRequest(r, u) ==
    /\ NextReq(r)
    /\ IF registry[u] # 0
       THEN /\ reqs' = [reqs EXCEPT ![r] = [NoReq EXCEPT !.pc = "done", !.resp = 400]]
            /\ UNCHANGED inits
       ELSE /\ reqs' = [reqs EXCEPT ![r] = [NoReq EXCEPT !.pc = "qrwait", !.user = u]]
            /\ inits' = [inits EXCEPT ![u] = @ + 1]
    /\ UNCHANGED <<socks, registry, status, authDir, bound, timers, logouts>>
    /\ Binding(u)
    /\ UNCHANGED <<ledgerVars, srvVars>>

\* S_QrWaitElapses giving the session up when the wait brought no qr
S_QrWaitElapses_GivesUp(r) ==
    LET u == reqs[r].user
    IN  /\ reqs[r].pc = "qrwait"
        /\ IF status[u] = "pending_qr"
           THEN /\ reqs' = [reqs EXCEPT ![r] = [NoReq EXCEPT !.pc = "done",
                                                              !.resp = 200]]
                /\ UNCHANGED <<registry, status>>
           ELSE /\ reqs' = [reqs EXCEPT ![r] = [NoReq EXCEPT !.pc = "timedout",
                                                              !.user = u, !.resp = 500]]
                /\ registry' = [registry EXCEPT ![u] = 0]
                /\ status' = [status EXCEPT ![u] = "disconnected"]
        /\ UNCHANGED <<socks, authDir, bound, timers, inits, logouts>>
        /\ Quiet
        /\ UNCHANGED <<ledgerVars, srvVars>>

\* the 5 s are over (server.js:429-436)
S_QrWaitElapses(r) ==
    LET u == reqs[r].user
    IN  /\ reqs[r].pc = "qrwait"
        /\ IF status[u] = "pending_qr"
           THEN reqs' = [reqs EXCEPT ![r] = [NoReq EXCEPT !.pc = "done", !.resp = 200]]
           ELSE reqs' = [reqs EXCEPT ![r] = [NoReq EXCEPT !.pc = "timedout",
                                                         !.user = u, !.resp = 500]]
        /\ UNCHANGED <<socks, registry, status, authDir, bound, timers, inits,
                       logouts>>
        /\ Quiet
        /\ UNCHANGED <<ledgerVars, srvVars>>

\* S_PairRequest making its socket before it validates the body
S_PairRequest_LateValidation(r, u, phoneGiven, made) ==
    /\ NextReq(r)
    /\ IF ~phoneGiven
       THEN /\ Unused # {}
            /\ reqs' = [reqs EXCEPT ![r] = [NoReq EXCEPT !.pc = "rejected",
                                                          !.resp = 400]]
            /\ socks' = [socks EXCEPT ![NewSockId] =
                           [NoSock EXCEPT !.owner = u, !.st = "connecting",
                                          !.creds = "fresh", !.temp = TRUE]]
       ELSE IF registry[u] # 0
       THEN /\ reqs' = [reqs EXCEPT ![r] = [NoReq EXCEPT !.pc = "done", !.resp = 400]]
            /\ UNCHANGED socks
       ELSE IF ~made
       THEN /\ reqs' = [reqs EXCEPT ![r] = [NoReq EXCEPT !.pc = "done", !.resp = 500]]
            /\ UNCHANGED socks
       ELSE /\ Unused # {}
            /\ socks' = [socks EXCEPT ![NewSockId] =
                           [NoSock EXCEPT !.owner = u, !.st = "connecting",
                                          !.creds = "fresh", !.temp = TRUE]]
            /\ reqs' = [reqs EXCEPT ![r] = [NoReq EXCEPT !.pc = "code", !.user = u,
                                                          !.sock = NewSockId]]
    /\ UNCHANGED <<registry, status, authDir, bound, timers, inits, logouts>>
    /\ IF phoneGiven THEN Binding(u) ELSE Quiet
    /\ UNCHANGED <<ledgerVars, srvVars>>

\* POST /request-pairing-code (server.js:439-446): a socket of its own, made
\* with no auth state and given no listener; makeWASocket may throw
S_PairRequest(r, u, phoneGiven, made) ==
    /\ NextReq(r)
    /\ IF ~phoneGiven
       THEN /\ reqs' = [reqs EXCEPT ![r] = [NoReq EXCEPT !.pc = "rejected",
                                                          !.resp = 400]]
            /\ UNCHANGED socks
       ELSE IF registry[u] # 0
       THEN /\ reqs' = [reqs EXCEPT ![r] = [NoReq EXCEPT !.pc = "done", !.resp = 400]]
            /\ UNCHANGED socks
       ELSE IF ~made
       THEN /\ reqs' = [reqs EXCEPT ![r] = [NoReq EXCEPT !.pc = "done", !.resp = 500]]
            /\ UNCHANGED socks
       ELSE /\ Unused # {}
            /\ socks' = [socks EXCEPT ![NewSockId] =
                           [NoSock EXCEPT !.owner = u, !.st = "connecting",
                                          !.creds = "fresh", !.temp = TRUE]]
            /\ reqs' = [reqs EXCEPT ![r] = [NoReq EXCEPT !.pc = "code", !.user = u,
                                                          !.sock = NewSockId]]
    /\ UNCHANGED <<registry, status, authDir, bound, timers, inits, logouts>>
    /\ IF phoneGiven THEN Binding(u) ELSE Quiet
    /\ UNCHANGED <<ledgerVars, srvVars>>

\* await requestPairingCode returns the code or throws (server.js:446-455)
S_PairCodeReturns(r, ok) ==
    LET u == reqs[r].user
        s == reqs[r].sock
    IN  /\ reqs[r].pc = "code"
        /\ ok => WsIsOpen(s)
        /\ IF ok
           THEN /\ socks' = [socks EXCEPT ![s].artifact = TRUE]
                /\ inits' = [inits EXCEPT ![u] = @ + 1]
                /\ reqs' = [reqs EXCEPT ![r] = [NoReq EXCEPT !.pc = "done", !.resp = 200]]
           ELSE /\ reqs' = [reqs EXCEPT ![r] = [NoReq EXCEPT !.pc = "done", !.resp = 500]]
                /\ UNCHANGED <<socks, inits>>
        /\ UNCHANGED <<registry, status, authDir, bound, timers, logouts>>
        /\ Quiet
        /\ UNCHANGED <<ledgerVars, srvVars>>

\* the awaits of initializeWhatsAppConnection return (server.js:308-318) to a
\* call that nobody awaits; a rejection is logged or lost
S_InitReturns(u, ok) ==
    /\ inits[u] > 0
    /\ inits' = [inits EXCEPT ![u] = @ - 1]
    /\ IF ok
       THEN /\ Unused # {}
            /\ authDir' = [authDir EXCEPT ![u] = Loaded(@)]
            /\ socks' = S_MakeSocket(u, NewSockId)
            /\ registry' = [registry EXCEPT ![u] = NewSockId]
       ELSE UNCHANGED <<authDir, socks, registry>>
    /\ UNCHANGED <<status, bound, timers, reqs, logouts>>
    /\ Quiet
    /\ UNCHANGED <<ledgerVars, srvVars>>

\* reconnectExistingSessions (server.js:404-421): the next directory of the
\* listing; its call is awaited before the one after it
S_BootNext(u) ==
    /\ boot.cur = NoUser
    /\ u \in boot.todo
    /\ boot' = [boot EXCEPT !.todo = @ \ {u}, !.cur = u,
                            !.tried = Append(@, u)]
    /\ UNCHANGED <<socks, registry, status, authDir, bound, timers, inits, reqs,
                   logouts, qr, renders>>
    /\ Quiet
    /\ UNCHANGED ledgerVars

\* S_BootInitReturns with a rejection that leaves the loop
S_BootInitReturns_NoCatch(ok) ==
    LET u == boot.cur
    IN  /\ u # NoUser
        /\ boot' = [boot EXCEPT !.cur = NoUser,
                                !.todo = IF ok THEN @ ELSE {},
                                !.failed = IF ok THEN @ ELSE @ \cup {u}]
        /\ IF ok
           THEN /\ Unused # {}
                /\ authDir' = [authDir EXCEPT ![u] = Loaded(@)]
                /\ socks' = S_MakeSocket(u, NewSockId)
                /\ registry' = [registry EXCEPT ![u] = NewSockId]
           ELSE UNCHANGED <<authDir, socks, registry>>
        /\ UNCHANGED <<status, bound, timers, inits, reqs, logouts, qr, renders>>
        /\ Quiet
        /\ UNCHANGED ledgerVars

\* the call reconnectExistingSessions awaits returns or is caught (414-416)
S_BootInitReturns(ok) ==
    LET u == boot.cur
    IN  /\ u # NoUser
        /\ boot' = [boot EXCEPT !.cur = NoUser,
                                !.failed = IF ok THEN @ ELSE @ \cup {u}]
        /\ IF ok
           THEN /\ Unused # {}
                /\ authDir' = [authDir EXCEPT ![u] = Loaded(@)]
                /\ socks' = S_MakeSocket(u, NewSockId)
                /\ registry' = [registry EXCEPT ![u] = NewSockId]
           ELSE UNCHANGED <<authDir, socks, registry>>
        /\ UNCHANGED <<status, bound, timers, inits, reqs, logouts, qr, renders>>
        /\ Quiet
        /\ UNCHANGED ledgerVars

\* connection.update with a qr (server.js:323-324): qrcode.toDataURL is
\* started; its callback runs later.  An unregistered socket emits qr events.
S_Qr(s) ==
    /\ socks[s].st = "wsopen"
    /\ socks[s].creds = "fresh"
    /\ ~socks[s].temp
    /\ socks[s].qrs < MaxQr
    /\ s \notin renders
    /\ socks' = [socks EXCEPT ![s] = [@ EXCEPT !.artifact = TRUE, !.qrs = @ + 1]]
    /\ renders' = renders \cup {s}
    /\ UNCHANGED <<registry, status, authDir, bound, timers, inits, reqs, logouts,
                   qr, boot>>
    /\ Quiet
    /\ UNCHANGED ledgerVars

\* the callback of qrcode.toDataURL (server.js:324-331)
S_QrRendered(s, ok) ==
    LET u == socks[s].owner
    IN  /\ s \in renders
        /\ renders' = renders \ {s}
        /\ IF ok
           THEN /\ status' = [status EXCEPT ![u] = "pending_qr"]
                /\ qr' = [qr EXCEPT ![u] = 1]
           ELSE /\ status' = [status EXCEPT ![u] = "error"]
                /\ qr' = [qr EXCEPT ![u] = 0]
        /\ UNCHANGED <<socks, registry, authDir, bound, timers, inits, reqs,
                       logouts, boot>>
        /\ Quiet
        /\ UNCHANGED ledgerVars

\* connection.update, connection === 'open' (server.js:334-336); a socket
\* made by the pairing endpoint has no listener
S_Open(s) ==
    LET u == socks[s].owner
    IN  /\ CanOpen(s)
        /\ socks' = [socks EXCEPT ![s].st = "open"]
        /\ IF socks[s].temp
           THEN UNCHANGED <<status, qr, authDir>>
           ELSE /\ status' = [status EXCEPT ![u] = "connected"]
                /\ qr' = [qr EXCEPT ![u] = 0]
                /\ authDir' = [authDir EXCEPT ![u] = Saved(@)]
        /\ UNCHANGED <<registry, bound, timers, inits, reqs, logouts, renders, boot>>
        /\ Quiet
        /\ UNCHANGED ledgerVars

\* The close handler of server.js (337-353): what it leaves of the
\* directory, the bound flag and the timers of user u.
S_OnClose(u, reason, dir, bnd, tm) ==
    IF reason = "loggedOut"
    THEN <<[dir EXCEPT ![u] = "none"], [bnd EXCEPT ![u] = FALSE], tm>>
    ELSE <<dir, bnd, [tm EXCEPT ![u] = @ + 1]>>

\* S_Close emptying the connection map instead of deleting one entry
S_Close_ClearsMap(s, reason) ==
    LET u == socks[s].owner
    IN  /\ Live(s)
        /\ socks' = [socks EXCEPT ![s] = Gone(@)]
        /\ Closing(s, reason)
        /\ IF socks[s].temp
           THEN UNCHANGED <<registry, status, qr, authDir, bound, timers>>
           ELSE /\ registry' = [x \in Users |-> 0]
                /\ status' = [status EXCEPT ![u] = "disconnected"]
                /\ qr' = [qr EXCEPT ![u] = 0]
                /\ authDir' = S_OnClose(u, reason, authDir, bound, timers)[1]
                /\ bound' = S_OnClose(u, reason, authDir, bound, timers)[2]
                /\ timers' = S_OnClose(u, reason, authDir, bound, timers)[3]
        /\ UNCHANGED <<inits, reqs, logouts, renders, boot>>
        /\ UNCHANGED ledgerVars

\* connection.update, connection === 'close' (server.js:337-353)
S_Close(s, reason) ==
    LET u == socks[s].owner
    IN  /\ Live(s)
        /\ socks' = [socks EXCEPT ![s] = Gone(@)]
        /\ Closing(s, reason)
        /\ IF socks[s].temp
           THEN UNCHANGED <<registry, status, qr, authDir, bound, timers>>
           ELSE /\ registry' = [registry EXCEPT ![u] = 0]
                /\ status' = [status EXCEPT ![u] = "disconnected"]
                /\ qr' = [qr EXCEPT ![u] = 0]
                /\ authDir' = S_OnClose(u, reason, authDir, bound, timers)[1]
                /\ bound' = S_OnClose(u, reason, authDir, bound, timers)[2]
                /\ timers' = S_OnClose(u, reason, authDir, bound, timers)[3]
        /\ UNCHANGED <<inits, reqs, logouts, renders, boot>>
        /\ UNCHANGED ledgerVars

\* setTimeout(() => initializeWhatsAppConnection(userId), 10000) fires
\* (server.js:351)
S_TimerFires(u) ==
    /\ timers[u] > 0
    /\ timers' = [timers EXCEPT ![u] = @ - 1]
    /\ inits' = [inits EXCEPT ![u] = @ + 1]
    /\ UNCHANGED <<socks, registry, status, authDir, bound, reqs, logouts>>
    /\ Quiet
    /\ UNCHANGED <<ledgerVars, srvVars>>

\* What GET /check-status/:userId answers (server.js:458-462): the stored
\* status object as it is; the read changes nothing stored.
S_StatusRead(u, prevRead) ==
    [user |-> u,
     n |-> IF prevRead.user = u THEN 2 ELSE 1,
     status |-> status[u],
     artifact |-> qr[u],
     prev |-> IF prevRead.user = u THEN prevRead.artifact ELSE 0]

\* GET /check-status/:userId
S_CheckStatus(u) ==
    /\ lastRead' = S_StatusRead(u, lastRead)
    /\ lastClose' = NoClose
    /\ UNCHANGED <<dial, camp>>
    /\ lastSend' = NoSend
    /\ UNCHANGED terminated
    /\ UNCHANGED <<socks, registry, status, authDir, bound, timers, inits, reqs,
                   logouts>>
    /\ UNCHANGED <<ledgerVars, srvVars>>

\* S_SendAnswer calling sendMessage a second time when the first call failed
S_SendAnswer_Resends(u, given, sent) ==
    IF ~given THEN [user |-> u, given |-> FALSE, resp |-> 400, sends |-> 0]
    ELSE IF registry[u] = 0
    THEN [user |-> u, given |-> TRUE, resp |-> 404, sends |-> 0]
    ELSE [user |-> u, given |-> TRUE, resp |-> IF sent THEN 200 ELSE 500,
          sends |-> IF sent THEN 1 ELSE 2]

\* What POST /send-message answers (server.js:465-492).  sent: whether
\* await sock.sendMessage resolved.
S_SendAnswer(u, given, sent) ==
    IF ~given THEN [user |-> u, given |-> FALSE, resp |-> 400, sends |-> 0]
    ELSE IF registry[u] = 0
    THEN [user |-> u, given |-> TRUE, resp |-> 404, sends |-> 0]
    ELSE [user |-> u, given |-> TRUE, resp |-> IF sent THEN 200 ELSE 500,
          sends |-> 1]

\* POST /send-message (server.js:465-492).  A socket that is not open
\* rejects the send.
S_SendMessage(u, given, sent) ==
    /\ (given /\ registry[u] # 0 /\ sent) => socks[registry[u]].st = "open"
    /\ (~given \/ registry[u] = 0) => sent
    /\ UNCHANGED <<dial, camp>>
    /\ lastSend' = S_SendAnswer(u, given, sent)
    /\ lastClose' = NoClose
    /\ lastRead' = NoRead
    /\ UNCHANGED terminated
    /\ UNCHANGED <<socks, registry, status, authDir, bound, timers, inits, reqs,
                   logouts>>
    /\ UNCHANGED <<ledgerVars, srvVars>>

ServerNext ==
    \/ \E r \in ReqIds, u \in Users : S_QrRequest(r, u)
    \/ \E r \in ReqIds : S_QrWaitElapses(r)
    \/ \E r \in ReqIds, u \in Users, phoneGiven \in BOOLEAN, made \in BOOLEAN :
          S_PairRequest(r, u, phoneGiven, made)
    \/ \E r \in ReqIds, ok \in BOOLEAN : S_PairCodeReturns(r, ok)
    \/ \E u \in Users, ok \in BOOLEAN : S_InitReturns(u, ok)
    \/ \E u \in Users : S_BootNext(u)
    \/ \E ok \in BOOLEAN : S_BootInitReturns(ok)
    \/ \E s \in SockIds : WsOpens(s)
    \/ \E s \in SockIds : S_Qr(s)
    \/ \E s \in SockIds, ok \in BOOLEAN : S_QrRendered(s, ok)
    \/ \E s \in SockIds : S_Open(s)
    \/ \E s \in SockIds, reason \in CloseReasons : S_Close(s, reason)
    \/ \E u \in Users : S_TimerFires(u)
    \/ \E u \in Readers : S_CheckStatus(u)
    \/ \E u \in Senders, given \in BOOLEAN, sent \in BOOLEAN :
          S_SendMessage(u, given, sent)

-----------------------------------------------------------------------------
(* part_002: activeConnections, qrSessions *)

\* the handlers of part_002 up to their first await (108-116, 137-143):
\* validation, logout() of the registered session if there is one, rmSync
P2_Begin(r, u, given, pcLogout, pcLoad) ==
    /\ IF ~given
       THEN /\ reqs' = [reqs EXCEPT ![r] = [NoReq EXCEPT !.pc = "rejected",
                                                          !.resp = 400]]
            /\ UNCHANGED <<logouts, authDir>>
       ELSE IF registry[u] # 0
       THEN /\ logouts' = [logouts EXCEPT ![registry[u]] = @ + 1]
            /\ reqs' = [reqs EXCEPT ![r] = [NoReq EXCEPT !.pc = pcLogout, !.user = u,
                                                          !.old = registry[u]]]
            /\ UNCHANGED authDir
       ELSE /\ authDir' = [authDir EXCEPT ![u] = "none"]
            /\ reqs' = [reqs EXCEPT ![r] = [NoReq EXCEPT !.pc = pcLoad, !.user = u]]
            /\ UNCHANGED logouts
    /\ UNCHANGED <<socks, registry, status, bound, timers, inits>>
    /\ IF given THEN Binding(u) ELSE Quiet
    /\ UNCHANGED <<ledgerVars, srvVars>>

\* POST /request-pairing-code (part_002:108-116)
P2_PairRequest(r, u, phoneGiven) ==
    /\ NextReq(r)
    /\ P2_Begin(r, u, phoneGiven, "logout", "load")

\* POST /initiate-qr-session (part_002:137-143)
P2_QrRequest(r, u, userGiven) ==
    /\ NextReq(r)
    /\ P2_Begin(r, u, userGiven, "qlogout", "qload")

\* await logout().catch(() => {}) returns (part_002:114, 141).  A logout that
\* succeeds ends the registered socket with reason loggedOut and its close
\* handler (82-87) runs; then the endpoint removes the directory (116, 143).
P2_LogoutReturns(r, ok) ==
    LET u == reqs[r].user
        o == reqs[r].old
    IN  /\ reqs[r].pc \in {"logout", "qlogout"}
        /\ ok => WsIsOpen(o)
        /\ IF ok
           THEN /\ socks' = [socks EXCEPT ![o] = Gone(@)]
                /\ registry' = [registry EXCEPT ![u] = 0]
                /\ bound' = [bound EXCEPT ![u] = FALSE]
                /\ Replacing(o)
           ELSE /\ Quiet
                /\ UNCHANGED <<socks, registry, bound>>
        /\ authDir' = [authDir EXCEPT ![u] = "none"]
        /\ reqs' = [reqs EXCEPT ![r].pc = IF @ = "logout" THEN "load" ELSE "qload"]
        /\ UNCHANGED <<status, timers, inits, logouts>>
        /\ UNCHANGED <<ledgerVars, srvVars>>

\* The awaits of the endpoint return and it makes a socket of its own, which
\* it does not put into activeConnections (part_002:118-125, 145-165); the
\* qr endpoint sets qrSessions to pending (149-150).  A rejection of the
\* awaits is outside the try: the request is never answered.
P2_LoadReturns(r, ok) ==
    LET u == reqs[r].user
        s == NewSockId
        isQr == reqs[r].pc = "qload"
    IN  /\ reqs[r].pc \in {"load", "qload"}
        /\ IF ok
           THEN /\ Unused # {}
                /\ authDir' = [authDir EXCEPT ![u] = Loaded(@)]
                /\ socks' = [socks EXCEPT ![s] =
                               [NoSock EXCEPT !.owner = u, !.st = "connecting",
                                              !.creds = Loaded(authDir[u]), !.wired = TRUE,
                                              !.temp = TRUE, !.forQr = isQr,
                                              !.old = reqs[r].old]]
                /\ reqs' = [reqs EXCEPT ![r] =
                              [@ EXCEPT !.pc = IF isQr THEN "qrwait" ELSE "wait",
                                        !.sock = s]]
                /\ IF isQr
                   THEN /\ status' = [status EXCEPT ![u] = "pending"]
                        /\ qr' = [qr EXCEPT ![u] = 0]
                   ELSE UNCHANGED <<status, qr>>
           ELSE /\ reqs' = [reqs EXCEPT ![r] = [NoReq EXCEPT !.pc = "hung"]]
                /\ UNCHANGED <<authDir, socks, status, qr>>
        /\ UNCHANGED <<registry, bound, timers, inits, logouts, renders, boot>>
        /\ Quiet
        /\ UNCHANGED ledgerVars

\* the 1.5 s are over and requestPairingCode is called (part_002:128-129)
P2_WaitElapses(r) ==
    /\ reqs[r].pc = "wait"
    /\ reqs' = [reqs EXCEPT ![r].pc = "code"]
    /\ UNCHANGED <<socks, registry, status, authDir, bound, timers, inits, logouts>>
    /\ Quiet
    /\ UNCHANGED <<ledgerVars, srvVars>>

\* await requestPairingCode returns the code or throws (part_002:129-134)
P2_CodeReturns(r, ok) ==
    LET s == reqs[r].sock
    IN  /\ reqs[r].pc = "code"
        /\ ok => WsIsOpen(s)
        /\ IF ok
           THEN /\ socks' = [socks EXCEPT ![s].artifact = TRUE]
                /\ reqs' = [reqs EXCEPT ![r] = [NoReq EXCEPT !.pc = "done", !.resp = 200]]
           ELSE /\ reqs' = [reqs EXCEPT ![r] = [NoReq EXCEPT !.pc = "done", !.resp = 500]]
                /\ UNCHANGED socks
        /\ UNCHANGED <<registry, status, authDir, bound, timers, inits, logouts>>
        /\ Quiet
        /\ UNCHANGED <<ledgerVars, srvVars>>

\* the 3.5 s of the qr endpoint are over (part_002:171-177)
P2_QrWaitElapses(r) ==
    LET u == reqs[r].user
    IN  /\ reqs[r].pc = "qrwait"
        /\ reqs' = [reqs EXCEPT ![r] =
                      IF qr[u] # 0
                      THEN [NoReq EXCEPT !.pc = "done", !.resp = 200]
                      ELSE [NoReq EXCEPT !.pc = "timedout", !.user = u,
                                         !.resp = 500]]
        /\ UNCHANGED <<socks, registry, status, authDir, bound, timers, inits,
                       logouts>>
        /\ Quiet
        /\ UNCHANGED <<ledgerVars, srvVars>>

\* connection.update with a qr on the socket of the qr endpoint
\* (part_002:152-155): qrcode.toDataURL is awaited
P2_Qr(s) ==
    /\ socks[s].st = "wsopen"
    /\ socks[s].creds = "fresh"
    /\ socks[s].forQr
    /\ socks[s].qrs < MaxQr
    /\ s \notin renders
    /\ socks' = [socks EXCEPT ![s] = [@ EXCEPT !.artifact = TRUE, !.qrs = @ + 1]]
    /\ renders' = renders \cup {s}
    /\ UNCHANGED <<registry, status, authDir, bound, timers, inits, reqs, logouts,
                   qr, boot>>
    /\ Quiet
    /\ UNCHANGED ledgerVars

\* await qrcode.toDataURL returns or throws (part_002:155-158)
P2_QrRendered(s, ok) ==
    LET u == socks[s].owner
    IN  /\ s \in renders
        /\ renders' = renders \ {s}
        /\ IF ok
           THEN /\ status' = [status EXCEPT ![u] = "pending"]
                /\ qr' = [qr EXCEPT ![u] = 1]
           ELSE UNCHANGED <<status, qr>>
        /\ UNCHANGED <<socks, registry, authDir, bound, timers, inits, reqs,
                       logouts, boot>>
        /\ Quiet
        /\ UNCHANGED ledgerVars

\* connection 'open' on a socket an endpoint made (part_002:122-124,
\* 160-162): initializeWhatsAppConnection is called and not awaited
P2_TempOpen(s) ==
    LET u == socks[s].owner
    IN  /\ socks[s].temp
        /\ CanOpen(s)
        /\ socks' = [socks EXCEPT ![s].st = "open"]
        /\ authDir' = [authDir EXCEPT ![u] = Saved(@)]
        /\ inits' = [inits EXCEPT ![u] = @ + 1]
        /\ IF socks[s].forQr
           THEN /\ status' = [status EXCEPT ![u] = "completed"]
                /\ qr' = [qr EXCEPT ![u] = 0]
           ELSE UNCHANGED <<status, qr>>
        /\ UNCHANGED <<registry, bound, timers, reqs, logouts, renders, boot>>
        /\ Quiet
        /\ UNCHANGED ledgerVars

\* the awaits of initializeWhatsAppConnection return: makeWASocket,
\* activeConnections.set (part_002:62-67)
P2_InitReturns(u, ok) ==
    /\ inits[u] > 0
    /\ inits' = [inits EXCEPT ![u] = @ - 1]
    /\ IF ok
       THEN /\ Unused # {}
            /\ authDir' = [authDir EXCEPT ![u] = Loaded(@)]
            /\ socks' = [socks EXCEPT ![NewSockId] =
                           [NoSock EXCEPT !.owner = u, !.st = "connecting",
                                          !.creds = Loaded(authDir[u]), !.wired = TRUE,
                                          !.reg = TRUE, !.old = registry[u]]]
            /\ registry' = [registry EXCEPT ![u] = NewSockId]
       ELSE UNCHANGED <<authDir, socks, registry>>
    /\ UNCHANGED <<status, bound, timers, reqs, logouts>>
    /\ Quiet
    /\ UNCHANGED <<ledgerVars, srvVars>>

\* reconnectExistingSessions (part_002:97-103): the next directory
P2_BootNext(u) ==
    /\ boot.cur = NoUser
    /\ u \in boot.todo
    /\ boot' = [boot EXCEPT !.todo = @ \ {u}, !.cur = u,
                            !.tried = Append(@, u)]
    /\ UNCHANGED <<socks, registry, status, authDir, bound, timers, inits, reqs,
                   logouts, qr, renders>>
    /\ Quiet
    /\ UNCHANGED ledgerVars

\* the call reconnectExistingSessions awaits returns or is caught (101)
P2_BootInitReturns(ok) ==
    LET u == boot.cur
    IN  /\ u # NoUser
        /\ boot' = [boot EXCEPT !.cur = NoUser,
                                !.failed = IF ok THEN @ ELSE @ \cup {u}]
        /\ IF ok
           THEN /\ Unused # {}
                /\ authDir' = [authDir EXCEPT ![u] = Loaded(@)]
                /\ socks' = [socks EXCEPT ![NewSockId] =
                               [NoSock EXCEPT !.owner = u, !.st = "connecting",
                                              !.creds = Loaded(authDir[u]), !.wired = TRUE,
                                              !.reg = TRUE, !.old = registry[u]]]
                /\ registry' = [registry EXCEPT ![u] = NewSockId]
           ELSE UNCHANGED <<authDir, socks, registry>>
        /\ UNCHANGED <<status, bound, timers, inits, reqs, logouts, qr, renders>>
        /\ Quiet
        /\ UNCHANGED ledgerVars

\* connection 'open' on a socket of initializeWhatsAppConnection
\* (part_002:69-80): whatsAppNumber is stored, addMessageListener is called
P2_Open(s) ==
    LET u == socks[s].owner
    IN  /\ ~socks[s].temp
        /\ CanOpen(s)
        /\ socks' = [socks EXCEPT ![s] = [@ EXCEPT !.st = "open",
                                                   !.listeners = @ + 1]]
        /\ bound' = [bound EXCEPT ![u] = TRUE]
        /\ authDir' = [authDir EXCEPT ![u] = Saved(@)]
        /\ UNCHANGED <<registry, status, timers, inits, reqs, logouts>>
        /\ Quiet
        /\ UNCHANGED <<ledgerVars, srvVars>>

\* connection 'close' (part_002:81-91 for a socket of
\* initializeWhatsAppConnection, 163-167 for one of the qr endpoint; the
\* socket of the pairing endpoint has no handler for it)
P2_Close(s, reason) ==
    LET u == socks[s].owner
    IN  /\ Live(s)
        /\ socks' = [socks EXCEPT ![s] = Gone(@)]
        /\ Closing(s, reason)
        /\ IF socks[s].temp
           THEN /\ IF socks[s].forQr /\ status[u] = "pending"
                   THEN /\ status' = [status EXCEPT ![u] = "failed"]
                        /\ qr' = [qr EXCEPT ![u] = 0]
                   ELSE UNCHANGED <<status, qr>>
                /\ UNCHANGED <<registry, authDir, bound, timers>>
           ELSE /\ registry' = [registry EXCEPT ![u] = 0]
                /\ authDir' = S_OnClose(u, reason, authDir, bound, timers)[1]
                /\ bound' = S_OnClose(u, reason, authDir, bound, timers)[2]
                /\ timers' = S_OnClose(u, reason, authDir, bound, timers)[3]
                /\ UNCHANGED <<status, qr>>
        /\ UNCHANGED <<inits, reqs, logouts, renders, boot>>
        /\ UNCHANGED ledgerVars

\* setTimeout(() => initializeWhatsAppConnection(userId), 10000) fires
\* (part_002:89)
P2_TimerFires(u) ==
    /\ timers[u] > 0
    /\ timers' = [timers EXCEPT ![u] = @ - 1]
    /\ inits' = [inits EXCEPT ![u] = @ + 1]
    /\ UNCHANGED <<socks, registry, status, authDir, bound, reqs, logouts>>
    /\ Quiet
    /\ UNCHANGED <<ledgerVars, srvVars>>

Part2Next ==
    \/ \E r \in ReqIds, u \in Users, phoneGiven \in BOOLEAN :
          P2_PairRequest(r, u, phoneGiven)
    \/ \E r \in ReqIds, u \in Users, userGiven \in BOOLEAN :
          P2_QrRequest(r, u, userGiven)
    \/ \E r \in ReqIds, ok \in BOOLEAN : P2_LogoutReturns(r, ok)
    \/ \E r \in ReqIds, ok \in BOOLEAN : P2_LoadReturns(r, ok)
    \/ \E r \in ReqIds : P2_WaitElapses(r)
    \/ \E r \in ReqIds, ok \in BOOLEAN : P2_CodeReturns(r, ok)
    \/ \E r \in ReqIds : P2_QrWaitElapses(r)
    \/ \E s \in SockIds : WsOpens(s)
    \/ \E s \in SockIds : P2_Qr(s)
    \/ \E s \in SockIds, ok \in BOOLEAN : P2_QrRendered(s, ok)
    \/ \E s \in SockIds : P2_TempOpen(s)
    \/ \E u \in Users, ok \in BOOLEAN : P2_InitReturns(u, ok)
    \/ \E u \in Users : P2_BootNext(u)
    \/ \E ok \in BOOLEAN : P2_BootInitReturns(ok)
    \/ \E s \in SockIds : P2_Open(s)
    \/ \E s \in SockIds, reason \in CloseReasons : P2_Close(s, reason)
    \/ \E u \in Users : P2_TimerFires(u)

-----------------------------------------------------------------------------
(* The specifications *)

LedgerSpecInit == LedgerInit /\ SessIdle /\ dial = NoDial /\ camp = NoCamp

Part0Init == SessInit /\ LedgerIdle /\ boot = NoBoot

SpecLedger == LedgerSpecInit /\ [][LedgerNext]_vars

SpecLedger0 == LedgerSpecInit /\ [][Ledger0Next]_vars

\* one kind of messages.upsert event, delivered again and again to the
\* handler of server.js / part_002 and to the handler of part_000
UpsertInit ==
    /\ LedgerStart
    /\ inbound \in Messages
    /\ SessIdle
    /\ dial = NoDial /\ camp = NoCamp

S_Deliver(u) ==
    /\ inbound \in Messages
    /\ MessagesUpsert(u, inbound)

P0_Deliver(u) ==
    /\ inbound \in Messages
    /\ MessagesUpsert0(u, inbound)

UpsertNext ==
    \/ \E u \in Receivers : S_Deliver(u)
    \/ \E u \in Receivers : P0_Deliver(u)

SpecUpsert == UpsertInit /\ [][UpsertNext]_vars

TxnInit ==
    /\ today = 1
    /\ \E n \in 0..DailyCap :
          /\ docs = [u \in Users |-> IF u \in Receivers THEN DocAfter(n)
                                      ELSE NewDoc(NoUser)]
          /\ credited = [d \in 1..MaxDay |-> IF d = 1 THEN n ELSE 0]
    /\ txns = [t \in TxnIds |-> NoTxn]
    /\ inbound = NoMsg
    /\ evToday = [u \in Users |-> 0]
    /\ balDayStart = [u \in Users |-> 0]
    /\ stats = 0
    /\ SessIdle
    /\ dial = NoDial /\ camp = NoCamp

TxnNext ==
    \/ \E t \in TxnIds, u \in Receivers : T_Begin(t, u)
    \/ \E t \in TxnIds : T_Get(t)
    \/ \E t \in TxnIds : T_Commit(t)
    \/ Midnight

SpecTxn == TxnInit /\ [][TxnNext]_vars

SpecPart0 == Part0Init /\ [][Part0Next]_vars

Part1Init == SessInit /\ LedgerIdle /\ boot = NoBoot

SpecPart1 == Part1Init /\ [][Part1Next]_vars

\* app.listen's callback has listed the auth_info_ directories (server.js:407)
ServerInit ==
    /\ SessInit
    /\ authDir = [u \in Users |-> IF u = "u1" THEN "none" ELSE "paired"]
    /\ LedgerIdle
    /\ boot = Listed({u \in Users : authDir[u] # "none"})

SpecServer == ServerInit /\ [][ServerNext]_vars

\* server.js started with any auth_info_ directories, and no request made:
\* boot recovery and the events of the sessions it makes
BootInit ==
    /\ SessInit
    /\ LedgerIdle
    /\ boot = Listed({u \in Users : authDir[u] # "none"})

BootNext ==
    \/ \E u \in Users : S_BootNext(u)
    \/ \E ok \in BOOLEAN : S_BootInitReturns(ok)
    \/ \E u \in Users, ok \in BOOLEAN : S_InitReturns(u, ok)
    \/ \E s \in SockIds : WsOpens(s)
    \/ \E s \in SockIds : S_Open(s)
    \/ \E s \in SockIds, reason \in CloseReasons : S_Close(s, reason)
    \/ \E u \in Users : S_TimerFires(u)

\* the awaits of the boot loop return: the event loop runs every callback
\* whose promise has settled
SpecBoot ==
    /\ BootInit
    /\ [][BootNext]_vars
    /\ WF_vars(\E u \in Users : S_BootNext(u))
    /\ WF_vars(\E ok \in BOOLEAN : S_BootInitReturns(ok))

\* the sessions recovered at boot with their retries: a timer that is
\* pending fires, and the awaits of a call that was made return or reject
SpecRetry ==
    /\ BootInit
    /\ [][BootNext]_vars
    /\ WF_vars(\E u \in Users : S_BootNext(u))
    /\ WF_vars(\E ok \in BOOLEAN : S_BootInitReturns(ok))
    /\ \A u \in Users : WF_vars(S_TimerFires(u))
    /\ \A u \in Users : WF_vars(\E ok \in BOOLEAN : S_InitReturns(u, ok))

-----------------------------------------------------------------------------
(* POST /request-pairing-code: the phoneNumber given to requestPairingCode *)

MaxPhoneLen == 13

\* the characters a phoneNumber is made of here: a digit, and one that is none
PhoneChars == {"9", "+"}

\* what /[^0-9]/ does not match
Digits == {"0", "1", "2", "3", "4", "5", "6", "7", "8", "9"}

IsDigit(c) == c \in Digits

\* the bodies that pass the test !phoneNumber: strings that are not empty
PhoneNumbers == UNION {[1..n -> PhoneChars] : n \in 1..MaxPhoneLen}

\* the '91' of part_002:112
CountryPrefix == <<"9", "1">>

\* part_002:111-112: phoneNumber.replace(/[^0-9]/g, ''), then '91' before a
\* string of length 10
P2_PhoneNumber(phoneNumber) ==
    LET stripped == SelectSeq(phoneNumber, IsDigit)
    IN  IF Len(stripped) = 10 THEN CountryPrefix \o stripped ELSE stripped

\* part_000:134-151: the const of the body, as it came
P0_PhoneNumber(phoneNumber) == phoneNumber

\* server.js:440-446: the const of the body, as it came
S_PhoneNumber(phoneNumber) == phoneNumber

DialRest ==
    <<ledgerVars, socks, registry, status, authDir, bound, timers, inits, reqs,
      logouts, lastClose, srvVars, lastRead, lastSend, terminated, camp>>

\* sock.requestPairingCode(phoneNumber) of part_002:129
P2_RequestPairingCode ==
    /\ dial.variant = "none"
    /\ dial' = [dial EXCEPT !.variant = "part_002",
                            !.passed = P2_PhoneNumber(dial.phoneNumber)]
    /\ UNCHANGED DialRest

\* sock.requestPairingCode(phoneNumber) of part_000:151
P0_RequestPairingCode ==
    /\ dial.variant = "none"
    /\ dial' = [dial EXCEPT !.variant = "part_000",
                            !.passed = P0_PhoneNumber(dial.phoneNumber)]
    /\ UNCHANGED DialRest

\* sock.requestPairingCode(phoneNumber) of server.js:446
S_RequestPairingCode ==
    /\ dial.variant = "none"
    /\ dial' = [dial EXCEPT !.variant = "server",
                            !.passed = S_PhoneNumber(dial.phoneNumber)]
    /\ UNCHANGED DialRest

DialInit ==
    /\ LedgerIdle
    /\ SessIdle
    /\ dial \in {[NoDial EXCEPT !.phoneNumber = p] : p \in PhoneNumbers}
    /\ camp = NoCamp

DialNext ==
    \/ P2_RequestPairingCode
    \/ P0_RequestPairingCode
    \/ S_RequestPairingCode

SpecDial == DialInit /\ [][DialNext]_vars

(* The campaign of src/server.js:92-124 *)

MaxContacts == 3
MaxSends == 5

CampRest ==
    <<ledgerVars, socks, registry, status, authDir, bound, timers, inits, reqs,
      logouts, lastClose, srvVars, lastRead, lastSend, terminated, dial>>

\* POST /start-campaign (server.js:92-104): the three checks, the answer,
\* let count = 0 and setInterval
StartCampaign ==
    /\ camp.pc = "idle"
    /\ camp' = IF ~camp.session \/ camp.contacts = 0 \/ ~camp.message
                THEN [camp EXCEPT !.pc = "rejected", !.resp = 400]
                ELSE [camp EXCEPT !.pc = "started", !.resp = 200,
                                  !.count = 0, !.interval = TRUE]
    /\ UNCHANGED CampRest

\* the interval's callback runs (server.js:104-116): clearInterval and return
\* when count >= contacts.length, else sendMessage to contacts[count] is
\* called and the callback is suspended at its await
CampaignTick ==
    /\ camp.interval
    /\ IF camp.count >= camp.contacts
       THEN camp' = [camp EXCEPT !.interval = FALSE]
       ELSE /\ Len(camp.sent) < MaxSends
            /\ camp' = [camp EXCEPT !.sent = Append(@, camp.count + 1),
                                    !.sending = @ + 1]
    /\ UNCHANGED CampRest

\* await sock.sendMessage returns or throws into the catch (server.js:116-120)
\* and the callback goes on to count++ (122)
CampaignSendReturns(ok) ==
    /\ camp.sending > 0
    /\ camp' = [camp EXCEPT !.sending = @ - 1,
                            !.count = @ + 1,
                            !.failed = IF ok THEN @ ELSE @ + 1]
    /\ UNCHANGED CampRest

\* a request body and a session map of server.js:18
CampaignInit ==
    /\ LedgerIdle
    /\ SessIdle
    /\ dial = NoDial
    /\ camp \in {[NoCamp EXCEPT !.session = s, !.contacts = n, !.message = m] :
                    s \in BOOLEAN, n \in 0..MaxContacts, m \in BOOLEAN}

CampaignNext ==
    \/ StartCampaign
    \/ CampaignTick
    \/ \E ok \in BOOLEAN : CampaignSendReturns(ok)

SpecCampaign == CampaignInit /\ [][CampaignNext]_vars

\* part_002 after app.listen's callback has listed the directories (98)
Part2Init ==
    /\ SessInit
    /\ authDir = [u \in Users |-> IF u = "u1" THEN "none" ELSE "paired"]
    /\ LedgerIdle
    /\ boot = Listed({u \in Users : authDir[u] # "none"})

SpecPart2 == Part2Init /\ [][Part2Next]_vars

\* part_002 serving the pairing-code requests of one user, u2, whose session
\* is recovered at boot, with one socket more; no qr request is made
Part2OneInit ==
    /\ SessStart(MaxSocks + ExtraSocks)
    /\ authDir = [u \in Users |-> IF u = "u1" THEN "none" ELSE "paired"]
    /\ LedgerIdle
    /\ boot = Listed({u \in Users : authDir[u] # "none"})

Part2OneNext ==
    \/ \E r \in ReqIds, phoneGiven \in BOOLEAN : P2_PairRequest(r, "u2", phoneGiven)
    \/ \E r \in ReqIds, ok \in BOOLEAN : P2_LogoutReturns(r, ok)
    \/ \E r \in ReqIds, ok \in BOOLEAN : P2_LoadReturns(r, ok)
    \/ \E r \in ReqIds : P2_WaitElapses(r)
    \/ \E r \in ReqIds, ok \in BOOLEAN : P2_CodeReturns(r, ok)
    \/ \E s \in SockIds : WsOpens(s)
    \/ \E s \in SockIds : P2_TempOpen(s)
    \/ \E ok \in BOOLEAN : P2_InitReturns("u2", ok)
    \/ P2_BootNext("u2")
    \/ \E ok \in BOOLEAN : P2_BootInitReturns(ok)
    \/ \E s \in SockIds : P2_Open(s)
    \/ \E s \in SockIds, reason \in CloseReasons : P2_Close(s, reason)
    \/ P2_TimerFires("u2")

SpecPart2One == Part2OneInit /\ [][Part2OneNext]_vars

-----------------------------------------------------------------------------
(* Claims about the reward ledger *)

\* C4: the stored dailyMessageCount (whatsappTodayCount) of every ledger
\* entry is at most 200 in every reachable state.
C4_DailyCountAtMostCap ==
    \A u \in Users : docs[u].todayCount <= DailyCap

\* C5: n qualifying events handled on one calendar date raise the balance by
\* exactly min(n, 200) * reward that day, on every date.
C5_DayCreditIsMinOfEventsAndCap ==
    \A u \in Receivers :
        docs[u].exists =>
            docs[u].balance - balDayStart[u] = Min(evToday[u], DailyCap) * Reward

\* C6: a qualifying event handled on a date different from lastCountDate
\* leaves the stored daily count at 1 and lastCountDate at the new date.
C6_RolloverLeavesCountOne ==
    [][\A u \in Receivers :
          (docs[u].exists /\ docs[u].lastDate # today
                /\ evToday'[u] = evToday[u] + 1)
            => (docs'[u].todayCount = 1 /\ docs'[u].lastDate = today)]_vars

\* C22: with reward transactions of one user running concurrently, the
\* rewards committed for one calendar date are at most 200.
C22_CreditedPerDateAtMostCap ==
    \A d \in 1..MaxDay : credited[d] <= DailyCap

\* C28: a qualifying event handled while the daily count, taken as 0 when
\* lastCountDate is another date, is 200 or more leaves the whole entry of the
\* user as it was: balance, lifetime count, daily count and lastCountDate.
C28_EventAtCapChangesNothing ==
    [][\A u \in Receivers :
          (/\ evToday'[u] = evToday[u] + 1
           /\ docs[u].exists
           /\ (IF docs[u].lastDate # today THEN 0 ELSE docs[u].todayCount)
                 >= DailyCap)
          => docs'[u] = docs[u]]_vars

\* C28's case: on day 1 the 201st qualifying event of u1 has been handled
\* with the count at 200
C28_Witness ==
    /\ evToday["u1"] = DailyCap + 1
    /\ docs["u1"].exists
    /\ docs["u1"].lastDate = today
    /\ docs["u1"].todayCount = DailyCap
    /\ docs["u1"].balance = DailyCap * Reward

\* C29: an inbound event that has no content, or is self-originated, or is
\* a protocol stub event, leaves every ledger entry unchanged.
C29_UnqualifiedEventChangesNothing ==
    [][(~inbound.hasMessage \/ inbound.fromMe \/ inbound.stub)
          => docs' = docs]_vars

\* C7: every step that credits a user who has a referrerId with the reward
\* also credits the referrer with 10% of the reward.
C7_ReferrerCreditedWithUser ==
    [][\A u \in Users :
          (docs[u].exists /\ docs[u].referrerId # NoUser
                /\ docs'[u].balance = docs[u].balance + Reward)
            => LET ref == docs[u].referrerId
               IN  docs[ref].exists
                   /\ docs'[ref].balance = docs[ref].balance + Commission]_vars

\* C7 in part_000, the variant that pays the commission: the same statement,
\* and a referrer who cannot be credited leaves the user uncredited.
C7_Part0_ReferralAtomic ==
    [][\A u \in Users :
          (docs[u].exists /\ docs[u].referrerId # NoUser)
            => LET ref == docs[u].referrerId
               IN  /\ docs'[u].balance = docs[u].balance + Reward
                        => (docs[ref].exists
                            /\ docs'[ref].balance = docs[ref].balance + Commission)
                   /\ docs'[ref].balance # docs[ref].balance
                        => docs'[u].balance = docs[u].balance + Reward]_vars

-----------------------------------------------------------------------------
(* Claims about the session managers *)

\* C1: for every userId at most one session created for it is live (created
\* and not yet closed) in every reachable state.
C1_AtMostOneLiveSession ==
    \A u \in Users : Cardinality(LiveOf(u)) <= 1

AllDone == \A r \in ReqIds : reqs[r].pc = "done"

\* the socket s closes in this step, with this reason
ClosesWith(s, reason) ==
    /\ Live(s)
    /\ socks'[s].st = "closed"
    /\ lastClose' = [sock |-> s, reason |-> reason]

\* C2: once two pairing-code requests for one userId have both finished,
\* every live session they created is the one the Registry holds for it.
C2_RacingRequestsLeaveOneSession ==
    (AllDone /\ \A r \in ReqIds : reqs[r].user = "u1")
        => \A r \in ReqIds :
              (reqs[r].sock # 0 /\ Live(reqs[r].sock))
                  => registry[reqs[r].user] = reqs[r].sock

\* C3: the session found in the Registry when a new one is created is told
\* to log out exactly once, and no session is displaced from the Registry
\* by a new one without having been told to log out.
C3_LogoutOnceBeforeReplace ==
    /\ \A s \in SockIds : logouts[s] <= 1
    /\ \A s \in SockIds :
          (socks[s].st # "unused" /\ socks[s].old # 0)
              => logouts[socks[s].old] = 1
    /\ \A s \in SockIds :
          (Live(s) /\ socks[s].reg /\ registry[socks[s].owner] \notin {0, s})
              => logouts[s] >= 1

\* C10: a close with a reason other than logged-out schedules a retry for
\* the userId and leaves its credential material as it was.
C10_TransientCloseSchedulesRetry ==
    [][\A s \in SockIds :
          ClosesWith(s, "other")
            => /\ timers'[socks[s].owner] = timers[socks[s].owner] + 1
               /\ authDir'[socks[s].owner] = authDir[socks[s].owner]]_vars

\* C9: a close with reason logged-out purges the userId's credential
\* material, removes its Registry entry, clears its bound flag and schedules
\* no retry.
C9_LoggedOutCloseIsTerminal ==
    [][\A s \in SockIds :
          ClosesWith(s, "loggedOut")
            => LET u == socks[s].owner
               IN  /\ authDir'[u] = "none"
                   /\ registry'[u] = 0
                   /\ ~bound'[u]
                   /\ timers'[u] = timers[u]]_vars

\* the session registered for u has received open and no close since
Connected(u) == registry[u] # 0 /\ socks[registry[u]].st = "open"

\* C11: a send request calls the session's send command only when the
\* userId's session is connected, and otherwise answers a not-connected
\* error with nothing sent.
C11_SendOnlyWhenConnected ==
    \A u \in Senders :
        (lastSend.user = u /\ lastSend.given)
            => IF Connected(u) THEN lastSend.sends = 1
               ELSE lastSend.sends = 0 /\ lastSend.resp \in {400, 404}

\* C12: a status read answers not_found exactly when the Registry holds no
\* entry for the userId.
C12_NotFoundIffNoEntry ==
    \A u \in Readers :
        lastRead.user = u => (lastRead.status = "not_found" <=> registry[u] = 0)

\* C13: the credential material of a userId is deleted only in a step that
\* handles a logged-out close of a session of that userId.
C13_CredentialsDeletedOnlyOnLogout ==
    [][\A u \in Users :
          (authDir[u] # "none" /\ authDir'[u] = "none")
            => /\ lastClose'.reason = "loggedOut"
               /\ socks[lastClose'.sock].owner = u]_vars

\* a pairing or qr request for u has arrived and is not answered yet
BindInFlight(u) ==
    \E r \in ReqIds : reqs[r].user = u /\ reqs[r].pc \notin {"idle", "done", "rejected", "timedout", "hung", "sendload"}

\* C14: after a logged-out close for a userId no session of that userId is
\* created until a new pairing or qr request for it arrives.
C14_TerminatedIsOneWay ==
    [][\A u \in Users :
          (terminated[u] /\ terminated'[u] /\ ~BindInFlight(u))
            => \A s \in SockIds :
                  (socks'[s].owner = u /\ Live(s)') => Live(s)]_vars

Range(f) == {f[i] : i \in DOMAIN f}

\* what C15 says of every state
BootOncePerDirectory ==
    /\ \A i, j \in DOMAIN boot.tried : i # j => boot.tried[i] # boot.tried[j]
    /\ Range(boot.tried) \subseteq boot.found
    /\ \A u \in boot.found : u \in boot.todo \/ u \in Range(boot.tried)

\* C15: on process start session creation is attempted exactly once for
\* every userId with a credential directory and for no other, and the loop
\* comes to every one of them, also after the attempt for one has failed.
C15_BootRecoversEachOnce ==
    /\ []BootOncePerDirectory
    /\ <>(boot.todo = {} /\ boot.cur = NoUser
            /\ Range(boot.tried) = boot.found)

\* C15's case: the first attempt failed and the second userId has its session
C15_Witness ==
    /\ Len(boot.tried) = 2
    /\ boot.tried[1] \in boot.failed
    /\ registry[boot.tried[2]] # 0
    /\ boot.cur = NoUser

\* C16: a pairing-code request or a send request that lacks a required
\* field is answered 400 and leaves sessions, Registry, status, credential
\* material and pending creations as they were; nothing is commanded.
C16_InvalidRequestChangesNothing ==
    [][((\E r \in ReqIds : reqs[r].pc = "idle" /\ reqs'[r].pc = "rejected")
          \/ (lastSend'.user # NoUser /\ ~lastSend'.given))
        => /\ \A r \in ReqIds : reqs'[r].pc = "rejected" => reqs'[r].resp = 400
           /\ lastSend'.user # NoUser => lastSend'.resp = 400 /\ lastSend'.sends = 0
           /\ UNCHANGED <<socks, registry, status, qr, authDir, bound, timers,
                          inits, logouts>>]_vars

\* C16's case: with a session registered, a pairing-code request was rejected
\* and a send request lacking a field has just been answered
C16_Witness ==
    /\ \E r \in ReqIds : reqs[r].pc = "rejected"
    /\ lastSend.user = "u1" /\ ~lastSend.given /\ lastSend.resp = 400
    /\ registry["u1"] # 0

\* C17: when the wait of a qr request ends with no qr to give, the caller is
\* answered 500 and the session is left as it was: no socket is closed, no
\* Registry entry, status, timer or pending creation is changed.
C17_QrTimeoutLeavesSession ==
    [][\A r \in ReqIds : (reqs[r].pc = "qrwait" /\ reqs'[r].pc = "timedout")
          => /\ reqs'[r].resp = 500
             /\ UNCHANGED <<socks, registry, status, qr, authDir, bound, timers,
                            inits, logouts>>]_vars

\* C17's case: the qr request of u1 was answered 500 and a later status read
\* of u1 reports the session, still registered, as connected
C17_Witness ==
    /\ \E r \in ReqIds : reqs[r].pc = "timedout" /\ reqs[r].user = "u1"
    /\ lastRead.user = "u1" /\ lastRead.status = "connected"
    /\ registry["u1"] # 0

\* C18: a send request calls the session's sendMessage at most once; a call
\* that was made is answered 200 or 500, 200 only after a call, and a call on
\* a socket that is not open (which rejects it) is answered 500.
C18_SendAtMostOnce ==
    \A u \in Senders : lastSend.user = u
        => /\ lastSend.sends <= 1
           /\ lastSend.sends = 1 => lastSend.resp \in {200, 500}
           /\ lastSend.resp = 200 => lastSend.sends = 1
           /\ (lastSend.sends = 1 /\ registry[u] # 0
                 /\ socks[registry[u]].st # "open") => lastSend.resp = 500

\* C18's case: sendMessage was called for u1 and failed, answered 500
C18_Witness ==
    /\ lastSend.user = "u1" /\ lastSend.sends = 1 /\ lastSend.resp = 500
    /\ registry["u1"] # 0

\* C19: requestPairingCode is called with the digits of the phoneNumber and
\* nothing else, the country prefix before them exactly when there are 10.
C19_PassedIsNormalised ==
    dial.variant # "none"
        => LET digits == SelectSeq(dial.phoneNumber, IsDigit)
           IN  /\ \A i \in 1..Len(dial.passed) : dial.passed[i] \in Digits
               /\ Len(digits) = 10 => dial.passed = CountryPrefix \o digits
               /\ Len(digits) # 10 => dial.passed = digits

\* C20: the close event of a socket that is no longer the one the Registry
\* holds for its user leaves that user's Registry entry and status as they were.
C20_StaleCloseLeavesEntry ==
    [][\A u \in Users :
          (/\ lastClose'.sock # 0
           /\ socks[lastClose'.sock].owner = u
           /\ registry[u] # 0
           /\ registry[u] # lastClose'.sock)
          => /\ registry'[u] = registry[u]
             /\ status'[u] = status[u]]_vars

\* the open sockets of u that carry a messages.upsert listener: each of them
\* runs one reward transaction for u on an inbound message
Rewarding(u) ==
    {s \in SockIds : socks[s].owner = u /\ socks[s].st = "open"
                      /\ socks[s].listeners > 0}

\* C21: no socket carries the messages.upsert listener twice, and at no time
\* do two open sockets of one user carry it: an inbound message of the user
\* starts at most one reward transaction.
C21_OneMessageListenerPerUser ==
    /\ \A s \in SockIds : socks[s].listeners <= 1
    /\ \A u \in Users : Cardinality(Rewarding(u)) <= 1

\* C23: for each user at most one retry timer is pending, and none is
\* pending while a socket of the user is open.
C23_AtMostOneRetryPending ==
    \A u \in Users :
        /\ timers[u] <= 1
        /\ (\E s \in SockIds : socks[s].owner = u /\ socks[s].st = "open")
              => timers[u] = 0

\* the last close event of u's session had a reason other than loggedOut and
\* no session of u has opened since (no bind request is made in SpecRetry)
Retrying(u) == status[u] = "disconnected" /\ ~terminated[u]

\* C24: whenever the session of a user has closed for a reason other than
\* loggedOut and the user has neither a session nor a creation attempt under
\* way, a creation attempt eventually starts, also after an attempt that
\* failed in its initialization.
C24_RetryEventuallyStarts ==
    \A u \in Users :
        (Retrying(u) /\ LiveOf(u) = {} /\ inits[u] = 0)
            ~> (inits[u] > 0 \/ ~Retrying(u))

\* this state follows the close event that a bind request's logout() of u's
\* registered session brought: a close with loggedOut that the session
\* emitted of itself leaves terminated[u] set
TornDown(u) ==
    /\ lastClose.sock # 0
    /\ lastClose.reason = "loggedOut"
    /\ socks[lastClose.sock].owner = u
    /\ ~terminated[u]

\* C25: once a bind request has logged the session of a user out, no retry
\* timer of that user, set before, fires and calls
\* initializeWhatsAppConnection.
C25_NoRetryAfterTeardown ==
    [][\A u \in Users :
          TornDown(u) => ~(timers'[u] < timers[u] /\ inits'[u] > inits[u])]_vars

\* C26: the socket on which requestPairingCode is called has had its
\* connection.update and creds.update listeners attached before the call.
C26_ListenersBeforeCommand ==
    [][\A r \in ReqIds : (reqs[r].pc # "code" /\ reqs'[r].pc = "code")
          => socks'[reqs'[r].sock].wired]_vars

\* C27: no handler of a qr or pairing-code request ends without having sent
\* the response of its request (a request whose handler has ended unanswered
\* never completes), and a request is answered with one response code.
C27_EveryRequestAnswered ==
    \A r \in ReqIds :
        /\ reqs[r].pc # "hung"
        /\ reqs[r].pc \in {"done", "rejected", "timedout"}
              => reqs[r].resp \in {200, 400, 500}

\* this step is an event of, a failure of or the teardown of a session of
\* user a: a socket of a changes, or a pending creation or retry of a does
StepOf(a) ==
    \/ \E s \in SockIds : /\ socks'[s] # socks[s]
                           /\ (socks[s].owner = a \/ socks'[s].owner = a)
    \/ inits'[a] # inits[a]
    \/ timers'[a] # timers[a]

C31_ConnectedIffRegisteredOpen ==
    \A u \in Users : status[u] = "connected" <=> Connected(u)

\* C32: when a pairing-code request is answered with a code, the session on
\* which requestPairingCode was called is the session installed in the
\* Registry for the userId of the request.
C32_CodeFromRegisteredSession ==
    [][\A r \in ReqIds :
          (reqs[r].pc = "code" /\ reqs'[r].pc = "done" /\ reqs'[r].resp = 200)
            => registry'[reqs[r].user] = reqs[r].sock]_vars

\* C33: a started campaign calls sendMessage once per contact, in list
\* order, whether a send fails or outlasts the tick, and when its interval
\* has been cleared every contact has been sent to: none twice, none skipped.
C33_OneSendPerContactInOrder ==
    camp.pc = "started"
        => /\ \A i \in 1..Len(camp.sent) : camp.sent[i] = i
           /\ ~camp.interval => Len(camp.sent) = camp.contacts

\* C8: of two status reads of a userId that follow each other, when the
\* first returned an artifact the second returns none.
C8_ArtifactReadOnce ==
    (lastRead.n = 2 /\ lastRead.prev # 0) => lastRead.artifact = 0

=============================================================================
